---- MODULE Spec2Model ----
(***************************************************************************)
(* Model of the toysh line editor (src/src/event.rs, src/src/shell.rs):    *)
(* the UserInput line buffer, the ShellState renderer and key dispatcher,  *)
(* and the polling loop of ShellState::run.                                *)
(*                                                                         *)
(* Text is modelled as Rust stores it: a String is a sequence of UTF-8     *)
(* bytes, a char is a Unicode code point.  A panic is modelled as the      *)
(* control state "panicked" (the process unwinds and ends).                *)
(***************************************************************************)
EXTENDS Integers, Sequences, FiniteSets, TLC

VARIABLES input, columns, lines, prompt_len, clear_above, clear_below,
          raw_mode, pc, term, pending, exit_status, op, drawn, log

\* input, columns, lines, prompt_len, clear_above, clear_below: the fields
\*   of ShellState; raw_mode: whether the terminal is in raw mode
\* pc: where the process is: "new" (constructed), "idle" (poll of the outer
\*   loop), "read" (poll reported an event), "exec" (inside run_command,
\*   about to call run_script), "poll0" (poll of the inner loop), "exited",
\*   "panicked"
\* term: the physical cursor of the terminal; pending: the events the
\*   terminal has delivered and the loop has not read
\* exit_status: what run_script returned to the handler in progress
\* op: the last operation applied when the buffer is driven directly
\* drawn: the line has been drawn since the session started
\* log: the handler in progress or just returned (its match arm) followed by
\*   the calls it has made, in order; "io_error" after a render_prompt whose
\*   terminal I/O failed
vars == <<input, columns, lines, prompt_len, clear_above, clear_below,
          raw_mode, pc, term, pending, exit_status, op, drawn, log>>

shellVars == <<columns, lines, prompt_len, clear_above, clear_below,
               raw_mode, term, pending, exit_status, drawn, log>>

(***************************************************************************)
(* Bounds of the model.                                                    *)
(***************************************************************************)
\* largest number of characters the terminal types into one line
MaxLen == 1
\* largest number of characters of a line buffer that is driven directly
MaxBufLen == 3
\* largest number of terminal events waiting to be read
MaxQueue == 1
\* largest number of waiting events when bursts of input are examined
MaxBurst == 2
\* largest number of characters of a line when wrapped lines are examined
MaxWrapLen == 2
\* the physical cursor is followed up to this many rows from the prompt row
MaxRow == 2
\* largest distance of a direct move_by call
MaxMove == 2

\* characters used when the buffer is driven directly: one of each encoded
\* width: 'a' (1 byte), U+00E9 (2), U+20AC (3), U+10348 (4)
BufChars == {97, 233, 8364, 66376}
\* characters the terminal sends in the session
KeyChars == {97, 8364}
\* terminal sizes (columns, lines) the size query can report
TermSizes == {<<4, 24>>, <<5, 24>>}

(***************************************************************************)
(* Rust strings: UTF-8 encoding and the String operations the buffer uses. *)
(***************************************************************************)
\* char::len_utf8
len_utf8(ch) ==
  IF ch < 128 THEN 1 ELSE IF ch < 2048 THEN 2 ELSE IF ch < 65536 THEN 3 ELSE 4

\* char::encode_utf8: the bytes of one code point
encode_utf8(ch) ==
  IF ch < 128 THEN <<ch>>
  ELSE IF ch < 2048 THEN <<192 + (ch \div 64), 128 + (ch % 64)>>
  ELSE IF ch < 65536 THEN
    <<224 + (ch \div 4096), 128 + ((ch \div 64) % 64), 128 + (ch % 64)>>
  ELSE
    <<240 + (ch \div 262144), 128 + ((ch \div 4096) % 64),
      128 + ((ch \div 64) % 64), 128 + (ch % 64)>>

\* width of the encoded character that starts with lead byte b
utf8_char_width(b) ==
  IF b < 128 THEN 1 ELSE IF b < 224 THEN 2 ELSE IF b < 240 THEN 3 ELSE 4

\* str::is_char_boundary
is_char_boundary(s, idx) ==
  \/ idx = 0
  \/ idx = Len(s)
  \/ /\ idx > 0
     /\ idx < Len(s)
     /\ ~(s[idx + 1] >= 128 /\ s[idx + 1] < 192)

\* str::char_indices, collected: the byte offset of each character, found by
\* stepping from lead byte to lead byte (offsets are 0-based as in Rust)
RECURSIVE char_indices_from(_, _)
char_indices_from(s, off) ==
  IF off >= Len(s) THEN <<>>
  ELSE <<off>> \o char_indices_from(s, off + utf8_char_width(s[off + 1]))

char_indices(s) == char_indices_from(s, 0)

\* String::insert(idx, ch) panics unless idx is a char boundary
string_insert_ok(s, idx) == idx >= 0 /\ idx <= Len(s) /\ is_char_boundary(s, idx)

string_insert(s, idx, ch) ==
  SubSeq(s, 1, idx) \o encode_utf8(ch) \o SubSeq(s, idx + 1, Len(s))

\* String::remove(idx) panics at the end of the string ("cannot remove a
\* char from the end of a string") and off a char boundary
string_remove_ok(s, idx) == idx >= 0 /\ idx < Len(s) /\ is_char_boundary(s, idx)

string_remove(s, idx) ==
  SubSeq(s, 1, idx) \o SubSeq(s, idx + 1 + utf8_char_width(s[idx + 1]), Len(s))

(***************************************************************************)
(* UserInput: the line buffer.  Each operation yields the buffer it leaves  *)
(* and whether it panicked.                                                *)
(***************************************************************************)
\* the result of indexing a Vec out of bounds
OutOfBounds == -1

Done(u) == [u |-> u, panic |-> FALSE]
Panicked(u) == [u |-> u, panic |-> TRUE]

new == [input |-> <<>>, cursor |-> 0, indices |-> <<>>]

len(u) == Len(u.input)

is_empty(u) == u.input = <<>>

byte_index(u) ==
  IF u.cursor = Len(u.indices) THEN Len(u.input)
  ELSE IF u.cursor < Len(u.indices) THEN u.indices[u.cursor + 1]
  ELSE OutOfBounds

update_indices_stale(u) == u

update_indices(u) == [u EXCEPT !.indices = char_indices(u.input)]

insert(u, ch) ==
  LET i == byte_index(u) IN
  IF ~string_insert_ok(u.input, i) THEN Panicked(u)
  ELSE LET u1 == [u EXCEPT !.input = string_insert(u.input, i, ch)]
           u2 == update_indices(u1)
       IN Done([u2 EXCEPT !.cursor = u.cursor + 1])

delete(u) ==
  IF u.cursor < len(u) THEN
    LET i == byte_index(u) IN
    IF ~string_remove_ok(u.input, i) THEN Panicked(u)
    ELSE Done(update_indices([u EXCEPT !.input = string_remove(u.input, i)]))
  ELSE Done(u)

backspace(u) ==
  IF u.cursor > 0 THEN
    LET u1 == [u EXCEPT !.cursor = u.cursor - 1]
        i == byte_index(u1)
    IN IF ~string_remove_ok(u1.input, i) THEN Panicked(u1)
       ELSE Done(update_indices([u1 EXCEPT !.input = string_remove(u1.input, i)]))
  ELSE Done(u)

clear(u) == [input |-> <<>>, cursor |-> 0, indices |-> <<>>]

Min(a, b) == IF a < b THEN a ELSE b
Max(a, b) == IF a > b THEN a ELSE b

move_by_past_end(u, offset) ==
  IF offset < 0 THEN [u EXCEPT !.cursor = Max(0, u.cursor - (0 - offset))]
  ELSE [u EXCEPT !.cursor = Min(len(u) + 1, u.cursor + offset)]

move_by(u, offset) ==
  IF offset < 0 THEN [u EXCEPT !.cursor = Max(0, u.cursor - (0 - offset))]
  ELSE [u EXCEPT !.cursor = Min(len(u), u.cursor + offset)]

(***************************************************************************)
(* What the claims speak about: the characters of a text, their count and  *)
(* their byte offsets, computed from the bytes without the buffer's cache. *)
(***************************************************************************)
IsContinuation(b) == b >= 128 /\ b < 192

\* number of characters of a byte string: its non-continuation bytes
CharCount(s) == Cardinality({i \in 1..Len(s) : ~IsContinuation(s[i])})

\* 0-based byte offset of character k (k = 0, 1, ...): the position of the
\* (k+1)-th non-continuation byte
OffsetOfChar(s, k) ==
  CHOOSE i \in 0..(Len(s) - 1) :
    /\ ~IsContinuation(s[i + 1])
    /\ Cardinality({j \in 1..i : ~IsContinuation(s[j])}) = k

\* the bytes of character k
CharAt(s, k) ==
  LET o == OffsetOfChar(s, k)
      e == IF k + 1 < CharCount(s) THEN OffsetOfChar(s, k + 1) ELSE Len(s)
  IN SubSeq(s, o + 1, e)

\* a text as the sequence of its characters (each one its bytes)
CharsOf(s) == [k \in 1..CharCount(s) |-> CharAt(s, k - 1)]

InsertAt(q, k, x) == SubSeq(q, 1, k) \o <<x>> \o SubSeq(q, k + 1, Len(q))
RemoveAt(q, k) == SubSeq(q, 1, k) \o SubSeq(q, k + 2, Len(q))

Clamp(x, lo, hi) == IF x < lo THEN lo ELSE IF x > hi THEN hi ELSE x

IndicesExact(u) ==
  /\ Len(u.indices) = CharCount(u.input)
  /\ \A k \in 1..Len(u.indices) : u.indices[k] = OffsetOfChar(u.input, k - 1)

(***************************************************************************)
(* The line buffer driven directly through its operations.                 *)
(***************************************************************************)
Op(name, arg) == [name |-> name, arg |-> arg]

InitShell ==
  /\ columns = 0
  /\ lines = 0
  /\ prompt_len = 0
  /\ clear_above = 0
  /\ clear_below = 0
  /\ raw_mode = FALSE
  /\ term = [row |-> 0, col |-> 0, wrap |-> FALSE]
  /\ pending = <<>>
  /\ exit_status = <<>>
  /\ drawn = FALSE
  /\ log = <<>>

Init ==
  /\ input = new
  /\ pc = "new"
  /\ op = Op("none", 0)
  /\ InitShell

BufApply(r, o) ==
  /\ input' = r.u
  /\ pc' = IF r.panic THEN "panicked" ELSE pc
  /\ op' = o
  /\ UNCHANGED shellVars

BufInsert ==
  \E ch \in BufChars :
    /\ pc = "new"
    /\ CharCount(input.input) < MaxBufLen
    /\ BufApply(insert(input, ch), Op("insert", ch))

BufDelete ==
  /\ pc = "new"
  /\ BufApply(delete(input), Op("delete", 0))

BufBackspace ==
  /\ pc = "new"
  /\ BufApply(backspace(input), Op("backspace", 0))

BufMoveBy ==
  \E offset \in (0 - MaxMove)..MaxMove :
    /\ pc = "new"
    /\ BufApply(Done(move_by(input, offset)), Op("move_by", offset))

BufClear ==
  /\ pc = "new"
  /\ BufApply(Done(clear(input)), Op("clear", 0))

BufNext == BufInsert \/ BufDelete \/ BufBackspace \/ BufMoveBy \/ BufClear

BufSpec == Init /\ [][BufNext]_vars

(***************************************************************************)
(* The terminal: the physical cursor, as rows below the row on which the   *)
(* current prompt was drawn, a column, and the pending-wrap flag a VT      *)
(* terminal sets when a character is written into the last column.  Every  *)
(* character is one column wide.  w is the terminal width.                 *)
(***************************************************************************)
put_char(t, w) ==
  IF t.wrap THEN
    IF w = 1 THEN [t EXCEPT !.row = t.row + 1, !.col = 0, !.wrap = TRUE]
    ELSE [t EXCEPT !.row = t.row + 1, !.col = 1, !.wrap = FALSE]
  ELSE IF t.col >= w - 1 THEN [t EXCEPT !.wrap = TRUE]
  ELSE [t EXCEPT !.col = t.col + 1]

RECURSIVE print_n(_, _, _)
print_n(t, n, w) == IF n <= 0 THEN t ELSE print_n(put_char(t, w), n - 1, w)

\* Print("\r")
carriage_return(t) == [t EXCEPT !.col = 0, !.wrap = FALSE]

\* the "\n" of Print("\r\n")
line_feed(t) == [t EXCEPT !.row = t.row + 1, !.wrap = FALSE]

\* cursor::MoveRight(n): stops at the last column; a count of 0 moves by 1
move_right(t, n, w) ==
  [t EXCEPT !.col = Min(w - 1, t.col + Max(1, n)), !.wrap = FALSE]

\* cursor::MoveUp(n)
move_up(t, n) == [t EXCEPT !.row = t.row - Max(1, n), !.wrap = FALSE]

InRows(t) == t.row <= MaxRow /\ t.row >= 0 - MaxRow

(***************************************************************************)
(* Raw mode is one flag of the process.                                    *)
(***************************************************************************)
enable_raw_mode_noop(r) == r

enable_raw_mode(r) == TRUE

disable_raw_mode_noop(r) == r

disable_raw_mode(r) == FALSE

drop_keeps_raw_mode(r) == r

\* impl Drop for ShellState, run when a panic unwinds main
drop(r) == disable_raw_mode(r)

(***************************************************************************)
(* Shell::run_script.  The parser is not part of the sources at hand: its  *)
(* result is one of Ok, Empty, Fatal, and the empty line is Empty.         *)
(***************************************************************************)
parse(script) == IF script = <<>> THEN {"Empty"} ELSE {"Ok", "Empty", "Fatal"}

run_script(result) ==
  IF result = "Ok" THEN <<0>>
  ELSE IF result = "Empty" THEN <<0>>
  ELSE <<-1>>

(***************************************************************************)
(* ShellState: rendering.                                                  *)
(***************************************************************************)
\* the prompt string " $ "
PromptStr == <<32, 36, 32>>

\* outcomes of the terminal calls of render_prompt whose result is unwrapped
IoOutcomes == {"ok", "size_err", "flush_err"}

\* render_prompt: size is what terminal::size() reports, io which of the
\* unwrapped calls fails.  The row of the prompt becomes row 0.
render_prompt(size, io, t) ==
  IF io = "size_err" THEN
    [panic |-> TRUE, columns |-> columns, lines |-> lines,
     prompt_len |-> prompt_len, term |-> t]
  ELSE
    LET cols == size[1]
        bar == carriage_return(print_n(t, 1 + Max(1, cols - 1), cols))
        origin == [bar EXCEPT !.row = 0]
        shown == print_n(origin, Len(PromptStr), cols)
    IN IF io = "flush_err" THEN
         [panic |-> TRUE, columns |-> cols, lines |-> size[2],
          prompt_len |-> prompt_len, term |-> t]
       ELSE
         [panic |-> FALSE, columns |-> cols, lines |-> size[2],
          prompt_len |-> Len(PromptStr), term |-> shown]

\* print_user_input: redraw of the line u with prompt width pl on a terminal
\* of width cols, from physical cursor t; line_break tells whether the "\r\n"
\* after the text was printed, text_row is the row of the last character
print_user_input(u, pl, cols, t) ==
  LET t1 == move_right(carriage_return(t), pl, cols)
      t2 == print_n(t1, CharCount(u.input), cols)
      current_x == pl + len(u)
      t3 == IF current_x % cols = 0 THEN line_feed(carriage_return(t2)) ELSE t2
      input_height == current_x \div cols
      cursor_y == (pl + u.cursor) \div cols
      cursor_x == (pl + u.cursor) % cols
      cursor_y_diff == input_height - cursor_y
      t4 == IF cursor_y_diff > 0 THEN move_up(t3, cursor_y_diff) ELSE t3
      t5 == carriage_return(t4)
      t6 == IF cursor_x > 0 THEN move_right(t5, cursor_x, cols) ELSE t5
  IN IF cursor_y_diff < 0 THEN
       [panic |-> TRUE, term |-> t3, clear_above |-> clear_above,
        clear_below |-> clear_below, line_break |-> current_x % cols = 0,
        text_row |-> t2.row]
     ELSE
       [panic |-> FALSE, term |-> t6, clear_above |-> cursor_y,
        clear_below |-> input_height - cursor_y,
        line_break |-> current_x % cols = 0, text_row |-> t2.row]

(***************************************************************************)
(* Terminal events.                                                        *)
(***************************************************************************)
KeyEvent(code, ch, modifiers) ==
  [type |-> "Key", code |-> code, ch |-> ch, modifiers |-> modifiers]

Resize == [type |-> "Resize", code |-> "None", ch |-> 0, modifiers |-> "NONE"]

Events ==
  {KeyEvent("Char", 99, "CONTROL"), KeyEvent("Char", 100, "CONTROL"),
   KeyEvent("Left", 0, "NONE"), KeyEvent("Right", 0, "NONE"),
   KeyEvent("Backspace", 0, "NONE"), KeyEvent("Enter", 0, "NONE"),
   KeyEvent("Esc", 0, "NONE"), KeyEvent("Tab", 0, "NONE"), Resize}
  \cup {KeyEvent("Char", ch, "NONE") : ch \in KeyChars}

IsCharKey(ev) == ev.type = "Key" /\ ev.code = "Char" /\ ev.modifiers = "NONE"

\* the match arm of handle_key_event that takes ev
Arm(ev) ==
  IF ev.code = "Char" /\ ev.ch = 99 /\ ev.modifiers = "CONTROL" THEN "CtrlC"
  ELSE IF ev.code = "Char" /\ ev.ch = 100 /\ ev.modifiers = "CONTROL" THEN "CtrlD"
  ELSE IF ev.code = "Left" /\ ev.modifiers = "NONE" THEN "Left"
  ELSE IF ev.code = "Right" /\ ev.modifiers = "NONE" THEN "Right"
  ELSE IF ev.code = "Backspace" /\ ev.modifiers = "NONE" THEN "Backspace"
  ELSE IF ev.code = "Char" /\ ev.modifiers = "NONE" THEN "Char"
  ELSE IF ev.code = "Enter" /\ ev.modifiers = "NONE" THEN "Enter"
  ELSE IF ev.code = "Esc" /\ ev.modifiers = "NONE" THEN "Esc"
  ELSE "Other"

(***************************************************************************)
(* The session: ShellState::run and handle_key_event.                      *)
(* pc: "new" before run, "idle" at the timed poll, "read" at event::read,  *)
(* "exec" inside run_script, "poll0" at the zero-timeout poll, "exited"    *)
(* after process::exit, "panicked" after a panic has unwound.              *)
(***************************************************************************)
\* a panic unwinds main and drops the ShellState; lg is what the handler
\* had done
Panic(u, lg) ==
  /\ input' = u
  /\ pc' = "panicked"
  /\ raw_mode' = drop(raw_mode)
  /\ log' = lg

needs_redraw_unless_unmatched(arm) == arm \notin {"Enter", "Other"}

\* handle_key_event: needs_redraw is true unless the arm is Enter
needs_redraw(arm) == arm # "Enter"

\* the end of handle_key_event: the redraw of line u if needs_redraw
Redraw(arm, u, pl, cols, t, lg) ==
  IF needs_redraw(arm) THEN
    LET p == print_user_input(u, pl, cols, t) IN
    IF p.panic THEN
      /\ Panic(u, Append(lg, "print_user_input"))
      /\ term' = t
      /\ UNCHANGED <<clear_above, clear_below, drawn>>
    ELSE
      /\ InRows(p.term)
      /\ input' = u
      /\ pc' = "poll0"
      /\ term' = p.term
      /\ clear_above' = p.clear_above
      /\ clear_below' = p.clear_below
      /\ drawn' = TRUE
      /\ log' = Append(lg, "print_user_input")
      /\ UNCHANGED raw_mode
  ELSE
    /\ input' = u
    /\ pc' = "poll0"
    /\ term' = t
    /\ log' = lg
    /\ UNCHANGED <<clear_above, clear_below, drawn, raw_mode>>

\* a buffer operation with result r, then the end of handle_key_event
EditThenRedraw(arm, r, lg) ==
  IF r.panic THEN
    /\ Panic(r.u, lg)
    /\ UNCHANGED <<term, clear_above, clear_below, drawn>>
  ELSE Redraw(arm, r.u, prompt_len, columns, term, lg)

read_newest(q) == [ev |-> q[Len(q)], rest |-> SubSeq(q, 1, Len(q) - 1)]

\* event::read: the oldest pending event leaves the queue
read(q) == [ev |-> Head(q), rest |-> Tail(q)]

\* event::read returns a key that handle_key_event matches with this arm
Read(arm) ==
  /\ pc = "read"
  /\ pending # <<>>
  /\ read(pending).ev.type = "Key"
  /\ Arm(read(pending).ev) = arm
  /\ pending' = read(pending).rest
  /\ UNCHANGED op

Run ==
  \E size \in TermSizes, io \in IoOutcomes :
    LET r == render_prompt(size, io, term) IN
    /\ pc = "new"
    /\ columns' = r.columns
    /\ lines' = r.lines
    /\ prompt_len' = r.prompt_len
    /\ term' = r.term
    /\ IF r.panic THEN /\ pc' = "panicked"
                       /\ raw_mode' = drop(enable_raw_mode(raw_mode))
                       /\ log' = <<"run", "enable_raw_mode", "render_prompt", "io_error">>
       ELSE /\ pc' = "idle"
            /\ raw_mode' = enable_raw_mode(raw_mode)
            /\ log' = <<"run", "enable_raw_mode", "render_prompt">>
    /\ UNCHANGED op
    /\ UNCHANGED <<input, clear_above, clear_below, pending, exit_status, drawn>>

\* the terminal delivers an event of evs
ArriveFrom(evs, maxlen, maxq) ==
  \E ev \in evs :
    /\ pc \in {"idle", "read", "exec", "poll0"}
    /\ Len(pending) < maxq
    /\ IsCharKey(ev) =>
         CharCount(input.input)
           + Cardinality({i \in 1..Len(pending) : IsCharKey(pending[i])}) < maxlen
    /\ pending' = Append(pending, ev)
    /\ UNCHANGED <<input, columns, lines, prompt_len, clear_above, clear_below,
                   raw_mode, pc, term, exit_status, op, drawn, log>>

Arrive == ArriveFrom(Events, MaxLen, MaxQueue)

\* poll(100 ms) of the outer loop
PollIdle ==
  \E ok \in BOOLEAN :
    /\ pc = "idle"
    /\ pc' = IF ok /\ pending # <<>> THEN "read" ELSE "idle"
    /\ UNCHANGED <<input, columns, lines, prompt_len, clear_above, clear_below,
                   raw_mode, term, pending, exit_status, op, drawn, log>>

\* poll(0) of the inner loop; the handler has returned, and with it the
\* result of run_script, which run_command drops
PollDrain ==
  \E ok \in BOOLEAN :
    /\ pc = "poll0"
    /\ pc' = IF ok /\ pending # <<>> THEN "read" ELSE "idle"
    /\ log' = <<>>
    /\ exit_status' = <<>>
    /\ UNCHANGED <<input, columns, lines, prompt_len, clear_above, clear_below,
                   raw_mode, term, pending, op, drawn>>

\* event::read returns an event that is not a key: nothing is dispatched
ReadNotKey ==
  /\ pc = "read"
  /\ pending # <<>>
  /\ read(pending).ev.type # "Key"
  /\ pending' = read(pending).rest
  /\ pc' = "poll0"
  /\ log' = <<"NotKey">>
  /\ UNCHANGED op
  /\ UNCHANGED <<input, columns, lines, prompt_len, clear_above, clear_below,
                 raw_mode, term, exit_status, drawn>>

KeyCtrlC ==
  \E size \in TermSizes, io \in IoOutcomes :
    LET r == render_prompt(size, io, line_feed(carriage_return(term))) IN
    /\ Read("CtrlC")
    /\ columns' = r.columns
    /\ lines' = r.lines
    /\ prompt_len' = r.prompt_len
    /\ UNCHANGED exit_status
    /\ IF r.panic THEN
         /\ Panic(input, <<"CtrlC", "newline", "render_prompt", "io_error">>)
         /\ term' = line_feed(carriage_return(term))
         /\ UNCHANGED <<clear_above, clear_below, drawn>>
       ELSE
         Redraw("CtrlC", clear(input), r.prompt_len, r.columns, r.term,
                <<"CtrlC", "newline", "render_prompt", "clear">>)

KeyCtrlD ==
  /\ Read("CtrlD")
  /\ IF is_empty(input) THEN
       /\ Panic(input, <<"CtrlD", "unreachable">>)
       /\ UNCHANGED <<term, clear_above, clear_below, drawn>>
     ELSE EditThenRedraw("CtrlD", delete(input), <<"CtrlD", "delete">>)
  /\ UNCHANGED <<columns, lines, prompt_len, exit_status>>

KeyLeft ==
  /\ Read("Left")
  /\ EditThenRedraw("Left", Done(move_by(input, -1)), <<"Left", "move_by">>)
  /\ UNCHANGED <<columns, lines, prompt_len, exit_status>>

KeyRight ==
  /\ Read("Right")
  /\ EditThenRedraw("Right", Done(move_by(input, 1)), <<"Right", "move_by">>)
  /\ UNCHANGED <<columns, lines, prompt_len, exit_status>>

KeyBackspace ==
  /\ Read("Backspace")
  /\ EditThenRedraw("Backspace", backspace(input), <<"Backspace", "backspace">>)
  /\ UNCHANGED <<columns, lines, prompt_len, exit_status>>

KeyChar ==
  /\ Read("Char")
  /\ EditThenRedraw("Char", insert(input, read(pending).ev.ch), <<"Char", "insert">>)
  /\ UNCHANGED <<columns, lines, prompt_len, exit_status>>

\* Enter: run_command up to the call of run_script
KeyEnter ==
  LET p == print_user_input(input, prompt_len, columns, term) IN
  /\ Read("Enter")
  /\ InRows(p.term)
  /\ IF p.panic THEN
       /\ Panic(input, <<"Enter", "print_user_input">>)
       /\ UNCHANGED <<term, clear_above, clear_below, drawn>>
     ELSE
       /\ term' = line_feed(carriage_return(p.term))
       /\ clear_above' = p.clear_above
       /\ clear_below' = p.clear_below
       /\ drawn' = TRUE
       /\ raw_mode' = disable_raw_mode(raw_mode)
       /\ pc' = "exec"
       /\ log' = <<"Enter", "print_user_input", "newline", "disable_raw_mode">>
       /\ UNCHANGED input
  /\ UNCHANGED <<columns, lines, prompt_len, exit_status>>

\* run_script returns result: the rest of run_command, then the end of
\* handle_key_event
RunScriptWith(result) ==
  \E size \in TermSizes, io \in IoOutcomes :
    LET r == render_prompt(size, io, term)
        p == print_user_input(clear(input), r.prompt_len, r.columns, r.term)
        again == needs_redraw("Enter")
        q == IF again
             THEN print_user_input(clear(input), r.prompt_len, r.columns, p.term)
             ELSE p
        lg == log \o <<"run_script", "enable_raw_mode", "clear", "render_prompt">>
    IN
    /\ pc = "exec"
    /\ exit_status' = run_script(result)
    /\ input' = clear(input)
    /\ columns' = r.columns
    /\ lines' = r.lines
    /\ prompt_len' = r.prompt_len
    /\ IF r.panic \/ p.panic \/ q.panic THEN
         /\ pc' = "panicked"
         /\ raw_mode' = drop(enable_raw_mode(raw_mode))
         /\ clear_above' = 0
         /\ clear_below' = 0
         /\ log' = IF r.panic THEN Append(lg, "io_error")
                   ELSE Append(lg, "print_user_input")
         /\ UNCHANGED <<term, drawn>>
       ELSE
         /\ InRows(q.term)
         /\ pc' = "poll0"
         /\ raw_mode' = enable_raw_mode(raw_mode)
         /\ term' = q.term
         /\ clear_above' = q.clear_above
         /\ clear_below' = q.clear_below
         /\ drawn' = TRUE
         /\ log' = lg \o (IF again THEN <<"print_user_input", "print_user_input">>
                          ELSE <<"print_user_input">>)
    /\ UNCHANGED <<pending, op>>

RunScript == \E result \in parse(input.input) : RunScriptWith(result)

KeyEsc ==
  /\ Read("Esc")
  /\ raw_mode' = disable_raw_mode(raw_mode)
  /\ pc' = "exited"
  /\ log' = <<"Esc", "disable_raw_mode", "exit">>
  /\ UNCHANGED <<input, columns, lines, prompt_len, clear_above, clear_below,
                 term, exit_status, drawn>>

KeyOther ==
  /\ Read("Other")
  /\ Redraw("Other", input, prompt_len, columns, term, <<"Other">>)
  /\ UNCHANGED <<columns, lines, prompt_len, exit_status>>

Next ==
  \/ Run
  \/ Arrive
  \/ PollIdle
  \/ PollDrain
  \/ ReadNotKey
  \/ KeyCtrlC
  \/ KeyCtrlD
  \/ KeyLeft
  \/ KeyRight
  \/ KeyBackspace
  \/ KeyChar
  \/ KeyEnter
  \/ RunScript
  \/ KeyEsc
  \/ KeyOther

Spec == Init /\ [][Next]_vars

(***************************************************************************)
(* The session loop under bursts of input: up to MaxBurst events wait for  *)
(* the loop at once; the keys are a character, Left, Enter and one event   *)
(* that is not a key.                                                      *)
(***************************************************************************)
LoopEvents ==
  {KeyEvent("Char", 97, "NONE"), KeyEvent("Left", 0, "NONE"),
   KeyEvent("Enter", 0, "NONE"), Resize}

LoopArrive == ArriveFrom(LoopEvents, MaxLen, MaxBurst)

LoopNext ==
  \/ Run
  \/ LoopArrive
  \/ PollIdle
  \/ PollDrain
  \/ ReadNotKey
  \/ KeyLeft
  \/ KeyChar
  \/ KeyEnter
  \/ RunScript

LoopSpec == Init /\ [][LoopNext]_vars

(***************************************************************************)
(* The session with lines of one-byte characters long enough to wrap: up   *)
(* to MaxWrapLen characters, the cursor moved back with Left, and the two  *)
(* keys that start a new prompt.                                           *)
(***************************************************************************)
WrapEvents ==
  {KeyEvent("Char", 97, "NONE"), KeyEvent("Left", 0, "NONE"),
   KeyEvent("Char", 99, "CONTROL"), KeyEvent("Enter", 0, "NONE")}

WrapArrive == ArriveFrom(WrapEvents, MaxWrapLen, MaxQueue)

WrapNext ==
  \/ Run
  \/ WrapArrive
  \/ PollIdle
  \/ PollDrain
  \/ KeyCtrlC
  \/ KeyLeft
  \/ KeyChar
  \/ KeyEnter
  \/ RunScript

WrapSpec == Init /\ [][WrapNext]_vars

(***************************************************************************)
(* Properties of the line buffer (checked under BufSpec).                  *)
(***************************************************************************)
\* C1: at every step of any sequence of buffer operations the cursor is a
\* character index in [0, character_count(text)]: a valid index into the
\* offset cache or equal to its length.
C1_CursorInRange ==
  /\ input.cursor >= 0
  /\ input.cursor <= CharCount(input.input)
  /\ input.cursor <= Len(input.indices)

\* C2: after any mutating buffer operation the offset cache has one entry per
\* character of the text and entry k is the byte offset of character k.
C2_IndicesMatchText == IndicesExact(input)

C2_Witness ==
  /\ pc = "new"
  /\ op.name \in {"insert", "delete", "backspace"}
  /\ Len(input.indices) >= 2
  /\ input.indices[2] > 1
  /\ Len(input.input) > Len(input.indices)

\* C6: in every reachable buffer state, insert(c) followed immediately by
\* backspace() gives back the same text, cursor and offset cache.
C6_InsertBackspaceInverse ==
  pc = "new" =>
    \A ch \in BufChars :
      LET r1 == insert(input, ch) IN
      /\ ~r1.panic
      /\ LET r2 == backspace(r1.u) IN ~r2.panic /\ r2.u = input

\* C7: move_by(offset) sets the cursor to cursor + offset clamped into
\* [0, character_count(text)] and leaves text and offset cache unchanged.
C7_MoveByClamps ==
  [][(pc = "new" /\ op'.name = "move_by") =>
       input' = [input EXCEPT !.cursor =
                   Clamp(input.cursor + op'.arg, 0, CharCount(input.input))]]_vars

\* C8: delete() removes exactly the character at the cursor when
\* cursor < character_count(text), leaving the cursor unchanged; at the end
\* of the text it changes nothing; it never fails.
C8_DeleteAtCursor ==
  [][(pc = "new" /\ op'.name = "delete") =>
       /\ pc' = "new"
       /\ IF input.cursor < CharCount(input.input)
          THEN /\ CharsOf(input'.input) = RemoveAt(CharsOf(input.input), input.cursor)
               /\ input'.cursor = input.cursor
               /\ IndicesExact(input')
          ELSE input' = input]_vars

\* C9: insert(ch) never fails: it places ch at character position cursor,
\* keeps the other characters in order, rebuilds the offset cache and
\* advances the cursor by one.
C9_InsertAlwaysSucceeds ==
  [][(pc = "new" /\ op'.name = "insert") =>
       /\ pc' = "new"
       /\ CharsOf(input'.input) =
            InsertAt(CharsOf(input.input), input.cursor, encode_utf8(op'.arg))
       /\ input'.cursor = input.cursor + 1
       /\ IndicesExact(input')]_vars

(***************************************************************************)
(* Properties of the session (checked under Spec).                         *)
(***************************************************************************)
Running == {"idle", "read", "poll0"}
Ended == {"exited", "panicked"}

\* event::read hands ev to handle_key_event in this step
Dispatching(ev) ==
  /\ pc = "read"
  /\ pending # <<>>
  /\ Head(pending) = ev
  /\ pending' = Tail(pending)

\* C3: dispatching Ctrl-D while the buffer is empty does not end the
\* process: the session is still in its loop afterwards.
C3_CtrlDOnEmptyKeepsSession ==
  [][(Dispatching(KeyEvent("Char", 100, "CONTROL")) /\ is_empty(input)) =>
       pc' \in Running]_vars

\* C4: after every redraw the physical cursor is on row
\* (prompt_len + cursor) / columns below the prompt row and in column
\* (prompt_len + cursor) % columns.
C4_CursorWhereLogicalCursorIs ==
  (drawn /\ pc \in Running) =>
    /\ term.row = (prompt_len + input.cursor) \div columns
    /\ term.col = (prompt_len + input.cursor) % columns

\* C5: raw mode is enabled when the session loop starts, and whenever the
\* process has left the session (Esc, panic) raw mode is disabled.
C5_RawModeRestoredOnExit ==
  [][/\ (pc = "new" /\ pc' = "idle") => raw_mode'
     /\ pc' \in Ended => ~raw_mode']_vars

C5_Witness == pc = "panicked" /\ drawn /\ ~raw_mode /\ columns > 0

\* C10: a submission whose parse is Fatal yields ExitedWith(-1), and after
\* any executor outcome the session is back in its loop with raw mode
\* enabled, an empty buffer and cursor 0.
C10_ExecutorNeverEndsSession ==
  [][\A result \in {"Ok", "Empty", "Fatal"} :
       RunScriptWith(result) =>
         /\ exit_status' = IF result = "Fatal" THEN <<-1>> ELSE <<0>>
         /\ pc' \in Running
         /\ raw_mode'
         /\ input' = new]_vars

\* the calls the handler made include call
Called(call) == \E i \in 1..Len(log) : log[i] = call

\* C11: submitting the empty line yields ExitedWith(0); afterwards the buffer
\* is empty with cursor 0, the prompt has been rendered again and the session
\* is in its loop.
C11_EmptyLineSubmission ==
  [][(is_empty(input) /\ RunScript) =>
       /\ exit_status' = <<0>>
       /\ input' = new
       /\ log' = <<"Enter", "print_user_input", "newline", "disable_raw_mode",
                   "run_script", "enable_raw_mode", "clear", "render_prompt",
                   "print_user_input">>
       /\ pc' \in Running]_vars

\* C12: a terminal I/O failure while rendering never ends the session: the
\* loop is still running after it.
C12_RenderFailureKeepsSession == Called("io_error") => pc \in Running

\* C16: Ctrl-C, whatever the buffer holds, emits a newline, renders the
\* prompt again, empties the buffer (cursor 0), redraws the line, and the
\* session keeps running with raw mode enabled.
C16_CtrlCStartsFreshLine ==
  [][Dispatching(KeyEvent("Char", 99, "CONTROL")) =>
       /\ log' = <<"CtrlC", "newline", "render_prompt", "clear",
                   "print_user_input">>
       /\ input' = new
       /\ drawn'
       /\ pc' \in Running
       /\ raw_mode']_vars

\* what run_command does, in the order the claim gives
EnterOrder ==
  <<"Enter", "print_user_input", "newline", "disable_raw_mode", "run_script",
    "enable_raw_mode", "clear", "render_prompt", "print_user_input">>

\* the handler's calls so far are the first calls of EnterOrder, possibly
\* ending in a failed render
InEnterOrder(lg) ==
  \A i \in 1..Len(lg) :
    \/ i <= Len(EnterOrder) /\ lg[i] = EnterOrder[i]
    \/ i = Len(lg) /\ lg[i] = "io_error" /\ lg[i - 1] = "render_prompt"

\* C13: Enter redraws the line, emits a newline, disables raw mode, invokes
\* the executor with the text the buffer held at Enter, re-enables raw mode,
\* clears the buffer and re-renders the prompt, in this order; raw mode is
\* disabled during the whole executor invocation and enabled whenever a key
\* event is read.
C13_EnterOrder ==
  [][/\ Dispatching(KeyEvent("Enter", 0, "NONE")) =>
          /\ InEnterOrder(log')
          /\ pc' = "exec" => /\ log' = SubSeq(EnterOrder, 1, 4)
                             /\ input' = input
                             /\ ~raw_mode'
     /\ pc = "exec" =>
          /\ ~raw_mode
          /\ input' = input \/ RunScript
          /\ pc' # "exec" =>
               /\ InEnterOrder(log')
               /\ Len(log') >= 8
               /\ pc' \in Running => log' = EnterOrder /\ raw_mode'
     /\ pc' = "read" => raw_mode']_vars

C13_Witness ==
  pc = "poll0" /\ log = EnterOrder /\ exit_status = <<-1>> /\ raw_mode

\* how often the handler made this call
Count(call) == Cardinality({i \in 1..Len(log) : log[i] = call})

\* C14: when the handler of a key other than Enter and Esc has returned,
\* unmatched keys included, the line has been redrawn once, as the last
\* thing the handler did; the handler of Enter has made the two redraws of
\* run_command and no further one.
C14_RedrawAfterEveryKey ==
  (pc = "poll0" /\ log # <<>>) =>
    /\ log[1] \in {"CtrlC", "CtrlD", "Left", "Right", "Backspace", "Char",
                   "Other"} =>
         log[Len(log)] = "print_user_input" /\ Count("print_user_input") = 1
    /\ log[1] = "Enter" => Count("print_user_input") = 2

C14_Witness == pc = "poll0" /\ log = <<"Other", "print_user_input">>

\* the terminal delivered one more event in this step
Arrival == \E ev \in Events : pending' = Append(pending, ev)

\* what the loop does with event ev once it is read
HandlerOf(ev) == IF ev.type = "Key" THEN Arm(ev) ELSE "NotKey"

\* C15: the loop leaves idle-poll only for drain, and only when an event is
\* waiting; a drain iteration takes exactly the oldest waiting event and
\* hands it to its handler; after the handler the zero-timeout poll leads
\* to another drain iteration only if an event is waiting, and otherwise
\* back to idle-poll; the waiting events change in no other way than by
\* arrivals at the end, so none is skipped or handled twice.
C15_LoopStates ==
  [][/\ (pc = "idle" /\ pc' # "idle") =>
          pc' = "read" /\ pending # <<>> /\ pending' = pending
     /\ (pc = "read" /\ pc' # "read") =>
          /\ pending' = Tail(pending)
          /\ log'[1] = HandlerOf(Head(pending))
          /\ pc' \in {"poll0", "exec", "exited", "panicked"}
     /\ (pc = "poll0" /\ pc' # "poll0") =>
          /\ pending' = pending
          /\ (pc' = "read" /\ pending # <<>>) \/ pc' = "idle"
     /\ (pc = "exec" /\ pc' # "exec") =>
          pending' = pending /\ pc' \in {"poll0", "panicked"}
     /\ pc' = pc => pending' = pending \/ Arrival]_vars

\* a burst: the first event of two has been handled, the second waits
C15_Witness ==
  /\ pc = "poll0"
  /\ log = <<"Left", "move_by", "print_user_input">>
  /\ pending = <<KeyEvent("Char", 97, "NONE")>>
  /\ is_empty(input)

\* the line of the claim's example: 8 one-byte characters, cursor at the end
ExampleLine ==
  [input |-> [i \in 1..8 |-> 97], cursor |-> 8, indices |-> [i \in 1..8 |-> i - 1]]

ExampleRedraw ==
  print_user_input(ExampleLine, 3, 10, [row |-> 0, col |-> 3, wrap |-> FALSE])

\* C17: after a redraw, with last_row = (prompt_len + number of characters)
\* / columns and cursor_row = (prompt_len + cursor) / columns, clear_above is
\* cursor_row and clear_below is last_row - cursor_row, and the redraw printed
\* its line break exactly when prompt_len + number of characters is a
\* multiple of columns; for 10 columns, prompt 3, 8 characters and cursor 8
\* the cursor ends on row 1, column 1 with nothing to move up.
C17_LayoutFromCharacterCounts ==
  /\ (drawn /\ pc \in Running) =>
       LET width == prompt_len + CharCount(input.input)
           last_row == width \div columns
           cursor_row == (prompt_len + input.cursor) \div columns
       IN /\ clear_above = cursor_row
          /\ clear_below = last_row - cursor_row
          /\ print_user_input(input, prompt_len, columns, term).line_break
               <=> (width % columns = 0)
  /\ ExampleRedraw.clear_above = 1
  /\ ExampleRedraw.clear_below = 0
  /\ ExampleRedraw.term = [row |-> 1, col |-> 1, wrap |-> FALSE]
  /\ ~ExampleRedraw.line_break

\* C18: the cursor never exceeds the byte length of the text, so the row of
\* the end of the text is never above the row of the cursor and no redraw
\* fails on input_height - cursor_y.
C18_CursorWithinByteLength ==
  /\ input.cursor <= Len(input.input)
  /\ columns > 0 =>
       (prompt_len + len(input)) \div columns
         >= (prompt_len + input.cursor) \div columns
  /\ ~(pc = "panicked" /\ log # <<>> /\ log[Len(log)] = "print_user_input")

\* a redraw with the cursor at the byte length, beyond the last character
C18_Witness ==
  /\ drawn
  /\ pc = "poll0"
  /\ log = <<"Right", "move_by", "print_user_input">>
  /\ input.cursor = Len(input.input)
  /\ input.cursor > CharCount(input.input)

\* how many rows the last character of the drawn line is below the row on
\* which the redraw left the cursor
RowsBelowCursor ==
  LET p == print_user_input(input, prompt_len, columns,
                            [row |-> 0, col |-> 0, wrap |-> FALSE])
  IN p.text_row - p.term.row

\* C19: the newline of Ctrl-C takes the cursor to a row below the last row
\* of the drawn line, so the prompt rendered there covers no row of it; the
\* newline of Enter, after Enter's redraw, does the same for the command's
\* output and the next prompt.
C19_NewPromptBelowPreviousLine ==
  [][/\ (Dispatching(KeyEvent("Char", 99, "CONTROL")) /\ drawn
           /\ pc' \in Running) =>
          line_feed(carriage_return(term)).row > term.row + RowsBelowCursor
     /\ (Dispatching(KeyEvent("Enter", 0, "NONE")) /\ pc' = "exec") =>
          term'.row >
            print_user_input(input, prompt_len, columns, term).text_row]_vars

\* C20: raw mode is on whenever the loop polls, reads or dispatches, and
\* within a running session it is off only while the executor runs.
C20_RawModeWhileLooping ==
  /\ pc \in Running => raw_mode
  /\ pc = "exec" => ~raw_mode

\* the loop polls again after a submission
C20_Witness ==
  pc = "poll0" /\ log = EnterOrder /\ exit_status = <<0>> /\ raw_mode /\ drawn

====
